---- MODULE Spec2Model ----
(***************************************************************************)
(* Model of plugins/modules/identity/keycloak/keycloak_group_rolemapping.py *)
(* One invocation of main() is a walk of pc from "start" to a terminal      *)
(* state ("done" after exit_json, "failed" after fail_json, "crashed" after *)
(* an uncaught Python exception).  Every call made on the KeycloakAPI       *)
(* object kc is appended to the log `calls`.  The directory service behind  *)
(* kc is the pair (available, assigned) of role sets of the group in the    *)
(* scope (realm or client) the invocation works in.                         *)
(* The optional diff payload (module._diff) is not part of the model.       *)
(***************************************************************************)
EXTENDS Integers, Sequences, FiniteSets, TLC

\* Longest desired role list the inputs are drawn from.
MaxRoles == 2
\* Number of invocations run in succession against the same directory.
MaxRuns == 2

\* Python None.
None == "None"

\* Roles that exist in the directory (in the scope of the invocation).
R1 == [id |-> "i1", name |-> "n1"]
R2 == [id |-> "i2", name |-> "n2"]
Universe == {R1, R2}

\* Values the caller may pass in a role reference ("n3" names no role).
RoleIds == {None, "i1"}
RoleNames == {None, "n1", "n2", "n3"}
RoleRefs == [id : RoleIds, name : RoleNames]
RoleLists == UNION {[1..n -> RoleRefs] : n \in 0..MaxRoles}

\* Group references: by id, by the name of an existing group, by the name
\* of a missing group, or with both fields null.
GroupRefs ==
    {[gid |-> "g1", target_groupname |-> None],
     [gid |-> None, target_groupname |-> "grp"],
     [gid |-> None, target_groupname |-> "nogrp"],
     [gid |-> None, target_groupname |-> None]}

\* Client references: none (realm scope), by id, by the client_id of an
\* existing client, by the client_id of a missing client.
ClientRefs ==
    {[cid |-> None, client_id |-> None],
     [cid |-> "c1", client_id |-> None],
     [cid |-> None, client_id |-> "cli"],
     [cid |-> None, client_id |-> "nocli"]}

\* module.params and module.check_mode.  has_roles is false when the roles
\* parameter is omitted (roles is None), and the list is then empty.
Params ==
    [state : {"present", "absent"},
     check_mode : BOOLEAN,
     group : GroupRefs,
     client : ClientRefs,
     has_roles : BOOLEAN,
     roles : RoleLists]

VARIABLES
    params,                 \* module.params and module.check_mode
    gid, cid, roles,        \* locals of main()
    role_index,             \* position of the role loop (1-based)
    available_roles_before, assigned_roles_before, update_roles,
    result,                 \* the result dict
    pc,                     \* position in main()
    failure,                \* kind of the failure and the pc it happened at
    calls,                  \* calls made on kc in this invocation
    available, assigned,    \* the directory service's role sets of the group
    assigned0,              \* assigned when the invocation started
    run,                    \* number of the invocation
    prev                    \* outcome of the previous invocation

vars == <<params, gid, cid, roles, role_index, available_roles_before,
          assigned_roles_before, update_roles, result, pc, failure, calls,
          available, assigned, assigned0, run, prev>>

locals == <<gid, cid, roles, role_index, available_roles_before,
            assigned_roles_before, update_roles>>
remote == <<available, assigned>>
frame == <<params, assigned0, run, prev>>

\* result = dict(changed=False, msg='', diff={}, proposed={}, existing={}, end_state={})
\* An empty dict is modelled as the empty collection of the field's type.
InitResult ==
    [changed |-> FALSE, msg |-> "", proposed |-> <<>>, existing |-> {},
     end_state |-> {}]

NoFailure == [kind |-> None, at |-> None]

NoPrev == [outcome |-> "none", result |-> InitResult]

\* ------------------------------------------------------------------------
\* The directory service (KeycloakAPI), modelled from section 6 of the
\* specification.

\* findGroupByName
get_group_by_name(name) == IF name = "grp" THEN "g1" ELSE None

\* findClientByClientId
get_client_id(client_id) == IF client_id = "cli" THEN "c1" ELSE None

\* The answer of a role lookup that finds nothing.
NoRole == [id |-> None, name |-> None]

\* findRealmRoleByName / findClientRoleByName: the role of that name, or
\* nothing
FindRoleByName(name) ==
    IF \E r \in Universe : r.name = name
    THEN CHOOSE r \in Universe : r.name = name
    ELSE NoRole

\* findRealmGroupRoleMappingById / findClientGroupRoleMappingById: the role
\* of that id among the roles mapped to the group, or nothing
FindRoleMappingById(rid, mapped) ==
    IF \E r \in mapped : r.id = rid
    THEN CHOOSE r \in mapped : r.id = rid
    ELSE NoRole

\* addGroupRoleMappings: the roles of role_rep (by id) become assigned
AddMappings(role_rep, mapped) ==
    mapped \cup {r \in Universe : \E i \in 1..Len(role_rep) : role_rep[i].id = r.id}

\* removeGroupRoleMappings: the roles of role_rep (by id) stop being assigned
RemoveMappings(role_rep, mapped) ==
    mapped \ {r \in Universe : \E i \in 1..Len(role_rep) : role_rep[i].id = r.id}

\* The directory service carries out a mutating call.
Serve(call, mapped) ==
    IF call.op = "add_group_rolemapping" THEN AddMappings(call.arg, mapped)
    ELSE IF call.op = "delete_group_rolemapping"
         THEN RemoveMappings(call.arg, mapped)
         ELSE mapped

\* ------------------------------------------------------------------------
\* A call on kc: operation, the cid it was given (None: realm scope) and
\* the role list it carried.
Call(op, c, arg) == [op |-> op, cid |-> c, arg |-> arg]

MutatingOps == {"add_group_rolemapping", "delete_group_rolemapping"}

NumCalls(ops) == Cardinality({i \in 1..Len(calls) : calls[i].op \in ops})

TypeOK ==
    /\ params \in Params
    /\ pc \in {"start", "resolve_client", "roles", "fetch_assigned", "diff",
               "apply", "refetch", "done", "failed", "crashed"}
    /\ run \in 1..MaxRuns
    /\ available \subseteq Universe
    /\ assigned \subseteq Universe

Init ==
    /\ params \in Params
    /\ ~params.has_roles => params.roles = <<>>
    /\ gid = params.group.gid
    /\ cid = params.client.cid
    /\ roles = params.roles
    /\ role_index = 1
    /\ available_roles_before = {}
    /\ assigned_roles_before = {}
    /\ update_roles = <<>>
    /\ result = InitResult
    /\ pc = "start"
    /\ failure = NoFailure
    /\ calls = <<>>
    /\ available \in SUBSET Universe
    /\ assigned \in SUBSET Universe
    /\ assigned0 = assigned
    /\ run = 1
    /\ prev = NoPrev

\* Variant: a missing group is not noticed.
GroupMissing_ignored(group_rep) == FALSE

\* line 265: the group lookup found nothing
GroupMissing(group_rep) == group_rep = None

\* Variant: a missing client is not noticed.
ClientMissing_ignored(c) == FALSE

\* line 272: the client lookup found nothing
ClientMissing(c) == c = None

\* Variant: omitted roles are treated as an empty list.
RolesOmitted_never == FALSE

\* line 275: roles is None
RolesOmitted == ~params.has_roles

\* Variant: the reference is not validated.
role_unspecified_unchecked(role) == FALSE

\* line 279: the role reference has neither name nor id
role_unspecified(role) == role.name = None /\ role.id = None

\* Variant: check mode is not honoured.
check_mode_exit_never == FALSE

\* lines 336, 351: if module.check_mode
check_mode_exit == params.check_mode

\* The call main() makes next on kc, NoCall when its next step makes none.
NoCall == Call("none", None, <<>>)

\* lines 284, 286, 294, 296: the lookup of a role reference
RoleLookupOp(role) ==
    IF role.id = None
    THEN IF cid = None THEN "get_realm_role" ELSE "get_client_role_id_by_name"
    ELSE IF cid = None THEN "get_realm_group_rolemapping_by_id"
                       ELSE "get_client_group_rolemapping_by_id"

\* Variant: the assigned roles are always fetched from the realm.
CompositeOp_realm == "get_realm_group_composite_rolemappings"

\* lines 303 / 306, 341 / 343, 356 / 358: the fetch of the assigned roles
CompositeOp ==
    IF cid = None THEN "get_realm_group_composite_rolemappings"
                  ELSE "get_client_group_composite_rolemappings"

\* Variant: the composite mappings are fetched in place of the available ones.
AvailableOp_composite == CompositeOp

\* lines 302 / 305: the fetch of the available roles
AvailableOp ==
    IF cid = None THEN "get_realm_group_available_rolemappings"
                  ELSE "get_client_group_available_rolemappings"

\* Variant: the two mutating calls are swapped.
MutateOp_swapped ==
    IF params.state = "present" THEN "delete_group_rolemapping"
                                ELSE "add_group_rolemapping"

\* lines 331, 338, 353: the mutating call chosen by state
MutateOp ==
    IF params.state = "present" THEN "add_group_rolemapping"
                                ELSE "delete_group_rolemapping"

\* Variant: only the first role of the mutation list is sent.
MutateArg_first == SubSeq(update_roles, 1, 1)

\* lines 338, 353: role_rep=update_roles
MutateArg == update_roles

PendingCall ==
    CASE pc = "start" /\ gid = None /\ params.group.target_groupname # None ->
            Call("get_group_by_name", None, <<>>)
      [] pc = "resolve_client" /\ cid = None /\ params.client.client_id # None ->
            Call("get_client_id", None, <<>>)
      [] pc = "roles" /\ ~RolesOmitted /\ role_index <= Len(roles)
            /\ ~role_unspecified(roles[role_index]) ->
            Call(RoleLookupOp(roles[role_index]), cid, <<>>)
      [] pc = "roles" /\ ~RolesOmitted /\ role_index > Len(roles) ->
            Call(AvailableOp, cid, <<>>)
      [] pc = "fetch_assigned" -> Call(CompositeOp, cid, <<>>)
      [] pc = "apply" /\ Len(update_roles) > 0 /\ ~check_mode_exit ->
            Call(MutateOp, cid, MutateArg)
      [] pc = "refetch" -> Call(CompositeOp, cid, <<>>)
      [] OTHER -> NoCall

\* module.fail_json(msg=...)
fail_json(kind) ==
    /\ pc' = "failed"
    /\ failure' = [kind |-> kind, at |-> pc]

\* an uncaught exception ends main()
raise(kind) ==
    /\ pc' = "crashed"
    /\ failure' = [kind |-> kind, at |-> pc]

\* module.exit_json(...)
exit_json(res) ==
    /\ pc' = "done"
    /\ result' = res
    /\ UNCHANGED failure

\* lines 259-260: neither gid nor target_groupname
CheckParameters ==
    /\ pc = "start"
    /\ gid = None /\ params.group.target_groupname = None
    /\ fail_json("InvalidInput")
    /\ UNCHANGED <<locals, result, calls, remote, frame>>

\* lines 263-268: look the group up by name when gid is missing
ResolveGroup ==
    /\ pc = "start"
    /\ ~(gid = None /\ params.group.target_groupname = None)
    /\ IF gid = None
       THEN LET group_id == get_group_by_name(params.group.target_groupname) IN
            /\ calls' = Append(calls, PendingCall)
            /\ IF ~GroupMissing(group_id)
               THEN /\ gid' = group_id
                    /\ pc' = "resolve_client"
                    /\ UNCHANGED failure
               ELSE /\ fail_json("NotFoundGroup")
                    /\ UNCHANGED gid
       ELSE /\ pc' = "resolve_client"
            /\ UNCHANGED <<gid, calls, failure>>
    /\ UNCHANGED <<cid, roles, role_index, available_roles_before,
                   assigned_roles_before, update_roles, result, remote, frame>>

\* lines 270-273: look the client up when only client_id was given
ResolveClient ==
    /\ pc = "resolve_client"
    /\ IF cid = None /\ params.client.client_id # None
       THEN LET c == get_client_id(params.client.client_id) IN
            /\ calls' = Append(calls, PendingCall)
            /\ cid' = c
            /\ IF ClientMissing(c)
               THEN fail_json("NotFoundClient")
               ELSE pc' = "roles" /\ UNCHANGED failure
       ELSE /\ pc' = "roles"
            /\ UNCHANGED <<cid, calls, failure>>
    /\ UNCHANGED <<gid, roles, role_index, available_roles_before,
                   assigned_roles_before, update_roles, result, remote, frame>>

\* lines 275-276: roles omitted.  exit_json is given the message only; a
\* result without a changed key is reported as changed=false.
NoRoles ==
    /\ pc = "roles"
    /\ RolesOmitted
    /\ exit_json([changed |-> FALSE, msg |-> "no_roles"])
    /\ UNCHANGED <<locals, calls, remote, frame>>

\* lines 278-298: one pass of the loop that resolves the role references
ResolveRole ==
    /\ pc = "roles"
    /\ ~RolesOmitted
    /\ role_index <= Len(roles)
    /\ LET role == roles[role_index] IN
       IF role_unspecified(role)
       THEN /\ fail_json("InvalidInput")
            /\ UNCHANGED <<roles, role_index, calls>>
       ELSE
       /\ calls' = Append(calls, PendingCall)
       /\ IF role.id = None
          THEN LET found == FindRoleByName(role.name) IN
               IF found = NoRole
               THEN \* kc.get_realm_role(...)['id'] subscripts None in realm
                    \* scope; get_client_role_id_by_name returns None
                    /\ IF cid = None THEN raise("TypeError")
                                     ELSE fail_json("NotFoundRole")
                    /\ UNCHANGED <<roles, role_index>>
               ELSE /\ roles' = [roles EXCEPT ![role_index].id = found.id]
                    /\ role_index' = role_index + 1
                    /\ UNCHANGED <<pc, failure>>
          ELSE LET found == FindRoleMappingById(role.id, assigned) IN
               IF found = NoRole
               THEN \* kc.get_..._group_rolemapping_by_id(...)['name']
                    \* subscripts None
                    /\ raise("TypeError")
                    /\ UNCHANGED <<roles, role_index>>
               ELSE /\ roles' = [roles EXCEPT ![role_index].name = found.name]
                    /\ role_index' = role_index + 1
                    /\ IF found.name = None
                       THEN fail_json("NotFoundRole")
                       ELSE UNCHANGED <<pc, failure>>
    /\ UNCHANGED <<gid, cid, available_roles_before, assigned_roles_before,
                   update_roles, result, remote, frame>>

\* lines 301-302 / 304-305: fetch the roles available to the group
FetchAvailable ==
    /\ pc = "roles"
    /\ ~RolesOmitted
    /\ role_index > Len(roles)
    /\ calls' = Append(calls, PendingCall)
    /\ available_roles_before' = available
    /\ pc' = "fetch_assigned"
    /\ UNCHANGED <<gid, cid, roles, role_index, assigned_roles_before,
                   update_roles, result, failure, remote, frame>>

\* Variant: the list is reported as it was before the resolution.
proposed_roles_unresolved == params.roles

\* line 309: result['proposed'] = roles, the list the role loop has written to
proposed_roles == roles

\* lines 303 / 306, 308-309: fetch the roles assigned to the group
FetchAssigned ==
    /\ pc = "fetch_assigned"
    /\ calls' = Append(calls, PendingCall)
    /\ assigned_roles_before' = assigned
    /\ result' = [result EXCEPT !.existing = assigned, !.proposed = proposed_roles]
    /\ pc' = "diff"
    /\ UNCHANGED <<gid, cid, roles, role_index, available_roles_before,
                   update_roles, failure, remote, frame>>

\* Variant: the names are not compared.
Entries_any(role, compared) ==
    [i \in 1..Cardinality(compared) |-> [id |-> role.id, name |-> role.name]]

\* lines 315-320 / 323-328: one entry per role of the compared set that has
\* the desired role's name
Entries(role, compared) ==
    [i \in 1..Cardinality({a \in compared : a.name = role.name}) |->
        [id |-> role.id, name |-> role.name]]

\* Variant: the mutation list is built back to front.
RECURSIVE UpdateRoles_reversed(_, _)
UpdateRoles_reversed(rs, compared) ==
    IF rs = <<>> THEN <<>>
    ELSE UpdateRoles_reversed(Tail(rs), compared) \o Entries(Head(rs), compared)

\* lines 311-328: the loop over the desired roles
RECURSIVE UpdateRoles(_, _)
UpdateRoles(rs, compared) ==
    IF rs = <<>> THEN <<>>
    ELSE Entries(Head(rs), compared) \o UpdateRoles(Tail(rs), compared)

\* Variant: the two sets are swapped.
ComparedSet_swapped(state, avail, asg) == IF state = "present" THEN asg ELSE avail

\* Variant: present skips the roles that are assigned already.
ComparedSet_unassigned(state, avail, asg) ==
    IF state = "present" THEN avail \ asg ELSE asg

\* lines 314, 322: the set the desired roles are compared with
ComparedSet(state, avail, asg) == IF state = "present" THEN avail ELSE asg

\* lines 311-328
Diff ==
    /\ pc = "diff"
    /\ update_roles' = UpdateRoles(roles, ComparedSet(params.state,
                            available_roles_before, assigned_roles_before))
    /\ pc' = "apply"
    /\ UNCHANGED <<gid, cid, roles, role_index, available_roles_before,
                   assigned_roles_before, result, failure, calls, remote, frame>>

\* lines 361-365
NothingToDo ==
    /\ pc = "apply"
    /\ Len(update_roles) = 0
    /\ exit_json([result EXCEPT !.changed = FALSE, !.msg = "nothing_to_do"])
    /\ UNCHANGED <<locals, calls, remote, frame>>

\* lines 333-337 / 348-352: check mode leaves before the mutating call
CheckModeExit ==
    /\ pc = "apply"
    /\ Len(update_roles) > 0
    /\ check_mode_exit
    /\ exit_json([result EXCEPT !.changed = TRUE])
    /\ UNCHANGED <<locals, calls, remote, frame>>

\* lines 333-339 / 348-354: the mutating call
Mutate ==
    /\ pc = "apply"
    /\ Len(update_roles) > 0
    /\ ~check_mode_exit
    /\ calls' = Append(calls, PendingCall)
    /\ assigned' = Serve(PendingCall, assigned)
    /\ result' = [result EXCEPT !.changed = TRUE,
                    !.msg = IF params.state = "present" THEN "assigned"
                                                        ELSE "removed"]
    /\ pc' = "refetch"
    /\ UNCHANGED <<locals, failure, available, frame>>

\* lines 340-345 / 355-360: fetch the assigned roles again and exit
Refetch ==
    /\ pc = "refetch"
    /\ calls' = Append(calls, PendingCall)
    /\ exit_json([result EXCEPT !.end_state = assigned])
    /\ UNCHANGED <<locals, remote, frame>>

\* A call on kc fails (transport, authentication, permission): KeycloakAPI
\* ends the module with fail_json and the call has no effect.
UpstreamFailure ==
    /\ PendingCall # NoCall
    /\ calls' = Append(calls, PendingCall)
    /\ fail_json("UpstreamFailure")
    /\ UNCHANGED <<locals, result, remote, frame>>

Terminal == pc \in {"done", "failed", "crashed"}

\* The caller runs the module again with the same parameters after a run
\* that ended with exit_json; nobody else has touched the directory in
\* between.
Reinvoke ==
    /\ pc = "done"
    /\ run < MaxRuns
    /\ run' = run + 1
    /\ prev' = [outcome |-> pc, result |-> result]
    /\ assigned0' = assigned
    /\ gid' = params.group.gid
    /\ cid' = params.client.cid
    /\ roles' = params.roles
    /\ role_index' = 1
    /\ available_roles_before' = {}
    /\ assigned_roles_before' = {}
    /\ update_roles' = <<>>
    /\ result' = InitResult
    /\ pc' = "start"
    /\ failure' = NoFailure
    /\ calls' = <<>>
    /\ UNCHANGED <<params, remote>>

Next ==
    \/ CheckParameters
    \/ ResolveGroup
    \/ ResolveClient
    \/ NoRoles
    \/ ResolveRole
    \/ FetchAvailable
    \/ FetchAssigned
    \/ Diff
    \/ NothingToDo
    \/ CheckModeExit
    \/ Mutate
    \/ Refetch
    \/ UpstreamFailure
    \/ Reinvoke

Spec == Init /\ [][Next]_vars

\* ------------------------------------------------------------------------
\* Properties

NamesOf(rs) == {r.name : r \in rs}

Blank(ref) == ref.name = None /\ ref.id = None

LookupOps == {"get_group_by_name", "get_client_id"}

RoleLookupOps ==
    {"get_realm_role", "get_client_role_id_by_name",
     "get_realm_group_rolemapping_by_id", "get_client_group_rolemapping_by_id"}

Failed == pc \in {"failed", "crashed"}

\* The mutation list the diff gives for the resolved desired list and the
\* directory state the invocation started from.
WouldMutate ==
    UpdateRoles(roles, IF params.state = "present" THEN available ELSE assigned0)

\* C1: in check mode no add-mapping or remove-mapping call is ever made and
\* the directory is untouched; the changed flag an invocation returns, in
\* check mode as in a live run, is true exactly when the mutation list for
\* its inputs and the directory state it started from is non-empty.
C1_DryRunPurity ==
    /\ params.check_mode =>
          /\ NumCalls(MutatingOps) = 0
          /\ assigned = assigned0
    /\ pc = "done" =>
          (result.changed = (params.has_roles /\ WouldMutate # <<>>))

C1_Witness ==
    /\ pc = "done"
    /\ params.check_mode
    /\ result.changed
    /\ Len(update_roles) = 2

\* C2: a second live invocation with the same parameters, right after a
\* successful first one, returns changed=false and the end_state the first
\* one returned.
C2_Idempotence ==
    (run > 1 /\ pc = "done" /\ prev.outcome = "done" /\ ~params.check_mode) =>
        /\ result.changed = FALSE
        /\ params.has_roles => result.end_state = prev.result.end_state

\* Group, client or role resolution, or the fetch of a comparison set, has
\* failed in this invocation.
ResolutionFailed ==
    \/ failure.at \in {"start", "resolve_client", "roles", "fetch_assigned"}
    \/ /\ NumCalls({"get_group_by_name"}) > 0
       /\ get_group_by_name(params.group.target_groupname) = None
    \/ /\ NumCalls({"get_client_id"}) > 0
       /\ get_client_id(params.client.client_id) = None

\* C3: once a resolution or a fetch of the comparison sets has failed, the
\* invocation is in a terminal failure state (fail_json or an uncaught
\* exception), has made no mutating call, has no further call to make and
\* the assigned set is the one the invocation started with.
C3_NoMutationAfterFailure ==
    ResolutionFailed =>
        /\ Failed
        /\ NumCalls(MutatingOps) = 0
        /\ PendingCall = NoCall
        /\ assigned = assigned0

C3_Witness ==
    /\ pc = "failed"
    /\ failure.kind = "NotFoundRole"
    /\ role_index = 2
    /\ assigned0 # {}

HasBlank == params.has_roles /\ \E i \in 1..Len(params.roles) : Blank(params.roles[i])

FirstBlank ==
    CHOOSE i \in 1..Len(params.roles) :
        /\ Blank(params.roles[i])
        /\ \A j \in 1..(i - 1) : ~Blank(params.roles[j])

\* C4 as stated: a role reference with neither name nor id anywhere in the
\* list makes the invocation fail with InvalidInput without any call on the
\* directory service.
C4_ZeroCalls ==
    HasBlank =>
        /\ calls = <<>>
        /\ (pc \in {"done", "failed", "crashed"} =>
                pc = "failed" /\ failure.kind = "InvalidInput")

\* C4 amended: a role reference with neither name nor id keeps the
\* invocation from succeeding, from fetching the comparison sets and from
\* mutating; when the loop reaches the first such reference it fails with
\* InvalidInput without a lookup for it or for any later reference.  The
\* group lookup, the client lookup and the lookups of the references before
\* it have been made by then.
C4_InvalidInput ==
    HasBlank =>
        /\ pc \in {"start", "resolve_client", "roles", "failed", "crashed"}
        /\ \A i \in 1..Len(calls) : calls[i].op \in LookupOps \cup RoleLookupOps
        /\ NumCalls(RoleLookupOps) <= FirstBlank - 1
        /\ role_index <= FirstBlank
        /\ (pc = "roles" /\ role_index = FirstBlank) => PendingCall = NoCall
        /\ (Failed /\ failure.at = "roles" /\ role_index = FirstBlank) =>
                /\ pc = "failed"
                /\ failure.kind = "InvalidInput"
                /\ NumCalls(RoleLookupOps) = FirstBlank - 1

C4_Witness ==
    /\ HasBlank
    /\ FirstBlank = 2
    /\ pc = "failed"
    /\ failure.kind = "InvalidInput"
    /\ Len(calls) = 3

\* C5: when the mutation list is empty (as it is when no desired role name
\* is in the set the state compares with) no mutating call is made or
\* pending, the invocation cannot fail any more, and it ends with
\* changed=false and the nothing-to-do message.
C5_NoOpSafety ==
    /\ (pc \in {"apply", "done"} /\ params.has_roles
        /\ \A i \in 1..Len(roles) : roles[i].name \notin
              NamesOf(IF params.state = "present" THEN available_roles_before
                                                  ELSE assigned_roles_before))
            => update_roles = <<>>
    /\ (pc = "apply" /\ update_roles = <<>>) => PendingCall = NoCall
    /\ (Failed /\ params.has_roles /\ update_roles = <<>>) =>
            failure.at \notin {"apply", "refetch"}
    /\ (pc = "done" /\ params.has_roles /\ update_roles = <<>>) =>
            /\ NumCalls(MutatingOps) = 0
            /\ assigned = assigned0
            /\ result.changed = FALSE
            /\ result.msg = "nothing_to_do"

C5_Witness ==
    /\ pc = "done"
    /\ params.has_roles
    /\ Len(roles) > 0
    /\ update_roles = <<>>
    /\ available_roles_before # {}
    /\ result.msg = "nothing_to_do"

\* C6: after a live invocation with state present has succeeded, every
\* resolved desired role whose name was in the available set fetched before
\* the mutation has its name in the assigned set, and in end_state.
C6_PresentMonotonicity ==
    (pc = "done" /\ params.has_roles /\ params.state = "present"
     /\ ~params.check_mode) =>
        \A i \in 1..Len(roles) :
            roles[i].name \in NamesOf(available_roles_before) =>
                /\ roles[i].name \in NamesOf(assigned)
                /\ roles[i].name \in NamesOf(result.end_state)

C6_Witness ==
    /\ pc = "done"
    /\ params.state = "present"
    /\ ~params.check_mode
    /\ Len(update_roles) > 0
    /\ \E i \in 1..Len(roles) :
          /\ roles[i].name \in NamesOf(available_roles_before)
          /\ roles[i].name \notin NamesOf(assigned_roles_before)

\* C7: after a live invocation with state absent has succeeded, no resolved
\* desired role whose name was in the assigned set fetched before the
\* mutation has its name in the assigned set, nor in end_state.
C7_AbsentMonotonicity ==
    (pc = "done" /\ params.has_roles /\ params.state = "absent"
     /\ ~params.check_mode) =>
        \A i \in 1..Len(roles) :
            roles[i].name \in NamesOf(assigned_roles_before) =>
                /\ roles[i].name \notin NamesOf(assigned)
                /\ roles[i].name \notin NamesOf(result.end_state)

C7_Witness ==
    /\ pc = "done"
    /\ params.state = "absent"
    /\ ~params.check_mode
    /\ Len(update_roles) > 0
    /\ result.end_state # {}
    /\ \E i \in 1..Len(roles) : roles[i].name \in NamesOf(assigned_roles_before)

\* C8: in a successful live invocation with state present, a desired role
\* whose name is available and already assigned is in the mutation list, the
\* add-mapping call is made and changed is true; when all the roles of the
\* mutation list were assigned already, end_state is the assigned set
\* fetched before the mutation.
C8_PresentReasserts ==
    (pc = "done" /\ params.has_roles /\ params.state = "present"
     /\ ~params.check_mode) =>
        /\ \A i \in 1..Len(roles) :
              (roles[i].name \in NamesOf(available_roles_before)
                                    \cap NamesOf(assigned_roles_before)) =>
                  /\ \E j \in 1..Len(update_roles) : update_roles[j] = roles[i]
                  /\ NumCalls({"add_group_rolemapping"}) = 1
                  /\ result.changed
        /\ (/\ update_roles # <<>>
            /\ \A j \in 1..Len(update_roles) :
                  update_roles[j].name \in NamesOf(assigned_roles_before)) =>
                result.end_state = assigned_roles_before

C8_Witness ==
    /\ pc = "done"
    /\ params.state = "present"
    /\ ~params.check_mode
    /\ update_roles # <<>>
    /\ \A j \in 1..Len(update_roles) :
          update_roles[j].name \in NamesOf(assigned_roles_before)
    /\ result.changed
    /\ NumCalls({"add_group_rolemapping"}) = 1

ExpectedLookups ==
    (IF params.group.gid = None
     THEN <<Call("get_group_by_name", None, <<>>)>> ELSE <<>>)
    \o (IF params.client.cid = None /\ params.client.client_id # None
        THEN <<Call("get_client_id", None, <<>>)>> ELSE <<>>)

\* C10: with roles omitted the only calls ever made are the group lookup
\* (gid not given) and the client lookup (client_id given without cid), in
\* that order; the invocation can only fail in the group or client
\* resolution, and otherwise ends successfully with changed=false, the
\* no-roles message and the directory untouched.
C10_OmittedRoles ==
    ~params.has_roles =>
        /\ Len(calls) <= Len(ExpectedLookups)
        /\ \A i \in 1..Len(calls) : calls[i] = ExpectedLookups[i]
        /\ pc \in {"start", "resolve_client", "roles", "done", "failed"}
        /\ assigned = assigned0
        /\ pc = "failed" => failure.at \in {"start", "resolve_client"}
        /\ pc = "done" =>
              /\ calls = ExpectedLookups
              /\ result.changed = FALSE
              /\ result.msg = "no_roles"

C10_Witness ==
    /\ ~params.has_roles
    /\ pc = "done"
    /\ Len(calls) = 2
    /\ result.changed = FALSE
    /\ available # {}

\* C11: a role lookup is made only for references that lack the id or the
\* name, and a reference that has both keeps the name the caller gave.
C11_MinimalLookups ==
    params.has_roles =>
        /\ NumCalls(RoleLookupOps) <=
              Cardinality({i \in 1..Len(params.roles) :
                    params.roles[i].id = None \/ params.roles[i].name = None})
        /\ \A i \in 1..Len(roles) :
              (params.roles[i].id # None /\ params.roles[i].name # None) =>
                    roles[i].name = params.roles[i].name

\* The group, or the client, was looked up and does not exist.
GroupLookupMissed ==
    /\ params.group.gid = None
    /\ params.group.target_groupname # None
    /\ get_group_by_name(params.group.target_groupname) = None
    /\ pc # "start"

ClientLookupMissed ==
    /\ params.client.cid = None
    /\ params.client.client_id # None
    /\ get_client_id(params.client.client_id) = None
    /\ pc \notin {"start", "resolve_client"}
    /\ failure.at # "start"

\* C12: with gid given no group lookup is made; otherwise the group lookup
\* is the first call, made once, and a missing group ends the invocation
\* with the group-not-found failure.  The client lookup is made, once, only
\* when client_id is given without cid, and a missing client ends the
\* invocation with the client-not-found failure.  After either failure the
\* failed lookup is the last call and none is pending.
C12_GroupClientResolution ==
    /\ NumCalls({"get_group_by_name"}) <= 1
    /\ NumCalls({"get_client_id"}) <= 1
    /\ params.group.gid # None => NumCalls({"get_group_by_name"}) = 0
    /\ (params.group.gid = None /\ params.group.target_groupname # None
        /\ pc # "start") =>
            calls[1] = Call("get_group_by_name", None, <<>>)
    /\ (GroupLookupMissed /\ failure.kind # "UpstreamFailure") =>
            /\ pc = "failed"
            /\ failure.kind = "NotFoundGroup"
            /\ calls = <<Call("get_group_by_name", None, <<>>)>>
            /\ PendingCall = NoCall
    /\ (params.client.cid # None \/ params.client.client_id = None) =>
            NumCalls({"get_client_id"}) = 0
    /\ (params.client.cid = None /\ params.client.client_id # None
        /\ pc \notin {"start", "resolve_client"} /\ failure.at # "start") =>
            NumCalls({"get_client_id"}) = 1
    /\ (ClientLookupMissed /\ failure.kind # "UpstreamFailure") =>
            /\ pc = "failed"
            /\ failure.kind = "NotFoundClient"
            /\ calls[Len(calls)] = Call("get_client_id", None, <<>>)
            /\ PendingCall = NoCall

C12_Witness ==
    /\ pc = "failed"
    /\ failure.kind = "NotFoundClient"
    /\ Len(calls) = 2
    /\ params.has_roles
    /\ Len(params.roles) > 0

CompositeOps ==
    {"get_realm_group_composite_rolemappings",
     "get_client_group_composite_rolemappings"}

AvailableOps ==
    {"get_realm_group_available_rolemappings",
     "get_client_group_available_rolemappings"}

\* C13: an invocation never makes more than one mutating call and never the
\* one of the other state; a live invocation that ends successfully with a
\* non-empty mutation list has made exactly one, add for present and delete
\* for absent, carrying the whole mutation list, directly followed by the
\* one fetch of the assigned roles that comes after it, whose answer is
\* end_state.
C13_SingleBatchedMutation ==
    /\ NumCalls(MutatingOps) <= 1
    /\ NumCalls({IF params.state = "present" THEN "delete_group_rolemapping"
                                             ELSE "add_group_rolemapping"}) = 0
    /\ (pc = "done" /\ params.has_roles /\ ~params.check_mode
        /\ update_roles # <<>>) =>
            /\ NumCalls(MutatingOps) = 1
            /\ Len(calls) >= 2
            /\ calls[Len(calls) - 1].op =
                  (IF params.state = "present" THEN "add_group_rolemapping"
                                               ELSE "delete_group_rolemapping")
            /\ calls[Len(calls) - 1].arg = update_roles
            /\ calls[Len(calls)].op \in CompositeOps
            /\ NumCalls(CompositeOps) = 2
            /\ result.end_state = assigned

C13_Witness ==
    /\ pc = "done"
    /\ ~params.check_mode
    /\ Len(update_roles) = 2
    /\ update_roles[1] # update_roles[2]
    /\ NumCalls(MutatingOps) = 1

\* The elements of rs whose name is the name of a role of compared, in the
\* order of rs.
RECURSIVE NameFilter(_, _)
NameFilter(rs, compared) ==
    IF rs = <<>> THEN <<>>
    ELSE (IF Head(rs).name \in NamesOf(compared) THEN <<Head(rs)>> ELSE <<>>)
         \o NameFilter(Tail(rs), compared)

\* C14: once the diff has run, the mutation list is the resolved desired
\* roles whose name is the name of an available role (present) or of an
\* assigned role (absent), each once per occurrence and in input order; the
\* diff itself never fails.
C14_DiffResult ==
    /\ failure.at # "diff"
    /\ (pc \in {"apply", "refetch"} \/ (pc = "done" /\ params.has_roles)) =>
            update_roles =
                NameFilter(roles, IF params.state = "present"
                                  THEN available_roles_before
                                  ELSE assigned_roles_before)

C14_Witness ==
    /\ pc = "apply"
    /\ Len(roles) = 2
    /\ Len(update_roles) = 1
    /\ update_roles[1] = roles[2]

\* The role loop has stopped at a reference whose lookup found nothing.
LookupMissed ==
    /\ Failed
    /\ failure.at = "roles"
    /\ failure.kind \notin {"UpstreamFailure", "InvalidInput"}

\* C15: when the lookup of a reference with a name and no id finds nothing,
\* the invocation ends in the role-not-found failure of fail_json, in realm
\* scope as in client scope.
C15_RoleNotFoundByName ==
    (LookupMissed /\ roles[role_index].id = None) =>
        /\ pc = "failed"
        /\ failure.kind = "NotFoundRole"

\* C16: when the lookup of the group's role mapping by the id of a
\* reference finds nothing, the invocation ends in the role-not-found
\* failure of fail_json, in realm scope as in client scope.
C16_RoleNotFoundById ==
    (LookupMissed /\ roles[role_index].id # None) =>
        /\ pc = "failed"
        /\ failure.kind = "NotFoundRole"

\* C17 as stated: proposed is the list the caller passed, untouched by the
\* resolution, and existing is the assigned set fetched before any mutation.
C17_ProposedIsInput ==
    (pc = "done" /\ params.has_roles) =>
        /\ result.proposed = params.roles
        /\ result.existing = assigned0

\* C17 amended: proposed is the caller's list after resolution: same length
\* and order, a reference without id keeps its name and has the id found by
\* name, a reference with an id keeps its id and has the name found by id;
\* existing is the assigned set fetched before any mutation.
C17_ProposedIsResolved ==
    (pc = "done" /\ params.has_roles) =>
        /\ Len(result.proposed) = Len(params.roles)
        /\ \A i \in 1..Len(params.roles) :
              IF params.roles[i].id = None
              THEN /\ result.proposed[i].name = params.roles[i].name
                   /\ result.proposed[i].id = FindRoleByName(params.roles[i].name).id
                   /\ result.proposed[i].id # None
              ELSE /\ result.proposed[i].id = params.roles[i].id
                   /\ result.proposed[i].name =
                        FindRoleMappingById(params.roles[i].id, assigned0).name
                   /\ result.proposed[i].name # None
        /\ result.existing = assigned0
        /\ result.existing = assigned_roles_before

C17_Witness ==
    /\ pc = "done"
    /\ params.has_roles
    /\ Len(params.roles) = 2
    /\ params.roles[1].id = None
    /\ params.roles[2] = [id |-> "i1", name |-> "n2"]
    /\ result.existing # {}

\* C18: with a non-empty mutation list a successful invocation, in check
\* mode as in a live run, returns changed=true, the desired list as proposed,
\* the assigned set before the mutation as existing, and a message that
\* names the mutated roles and the group.
C18_DryRunMatchesLive ==
    (pc = "done" /\ params.has_roles /\ update_roles # <<>>) =>
        /\ result.changed
        /\ result.proposed = roles
        /\ result.existing = assigned0
        /\ result.msg \in {"assigned", "removed"}
        /\ params.check_mode => NumCalls(MutatingOps) = 0

RealmOps ==
    {"get_realm_role", "get_realm_group_rolemapping_by_id",
     "get_realm_group_available_rolemappings",
     "get_realm_group_composite_rolemappings"}

ClientOps ==
    {"get_client_role_id_by_name", "get_client_group_rolemapping_by_id",
     "get_client_group_available_rolemappings",
     "get_client_group_composite_rolemappings"}

\* The client id the invocation works with: the cid given, else the one the
\* client_id resolves to, else None (realm scope).
ExpectedCid ==
    IF params.client.cid # None THEN params.client.cid
    ELSE IF params.client.client_id # None
         THEN get_client_id(params.client.client_id)
         ELSE None

\* C19: every role lookup, fetch, mutating call and re-fetch of an
\* invocation is given the same client id, the one given or resolved, and is
\* a client-scoped operation; with no client reference every one of them is
\* a realm-scoped operation without client id.
C19_ScopeConsistency ==
    \A i \in 1..Len(calls) :
        calls[i].op \notin LookupOps =>
            /\ calls[i].cid = ExpectedCid
            /\ calls[i].op \in
                  MutatingOps \cup (IF ExpectedCid = None THEN RealmOps
                                                          ELSE ClientOps)

C19_Witness ==
    /\ pc = "done"
    /\ params.client.client_id = "cli"
    /\ NumCalls(MutatingOps) = 1
    /\ NumCalls(RoleLookupOps) = 2
    /\ Len(calls) = 7

ReachedDiff ==
    \/ pc \in {"diff", "apply", "refetch"}
    \/ pc = "done" /\ params.has_roles
    \/ failure.at \in {"apply", "refetch"}

\* C20: the available roles are never fetched twice; an invocation that
\* reaches the diff has looked up every role reference, then fetched the
\* available roles once and right after them the assigned roles once, before
\* any mutating call, and the diff works on those two answers, which are the
\* directory's state at the start of the invocation.
C20_SingleUpFrontFetch ==
    /\ NumCalls(AvailableOps) <= 1
    /\ ReachedDiff =>
          /\ NumCalls(AvailableOps) = 1
          /\ NumCalls(RoleLookupOps) = Len(roles)
          /\ \E a \in 1..(Len(calls) - 1) :
                /\ calls[a].op \in AvailableOps
                /\ calls[a + 1].op \in CompositeOps
                /\ \A i \in 1..Len(calls) :
                      /\ calls[i].op \in RoleLookupOps => i < a
                      /\ calls[i].op \in MutatingOps => i = a + 2
                      /\ calls[i].op \in CompositeOps => i \in {a + 1, a + 3}
          /\ available_roles_before = available
          /\ assigned_roles_before = assigned0
          /\ pc # "diff" =>
                update_roles =
                    UpdateRoles(roles, IF params.state = "present"
                                       THEN available_roles_before
                                       ELSE assigned_roles_before)

C20_Witness ==
    /\ pc = "done"
    /\ params.has_roles
    /\ NumCalls(RoleLookupOps) = 2
    /\ NumCalls(MutatingOps) = 1
    /\ NumCalls(AvailableOps) = 1
    /\ assigned # assigned0

====
